---------------------------- MODULE Spec2Model ----------------------------
(***************************************************************************)
(* Model of the Redis proxy connection pool                                *)
(* (source/extensions/filters/network/redis_proxy/conn_pool_impl.cc).      *)
(*                                                                         *)
(* A pool (InstanceImpl::ThreadLocalPool) lives on one worker thread.  It  *)
(* tracks one cluster, keeps one client per upstream host in client_map_,  *)
(* and an index host_address_map_ from address strings to hosts.           *)
(*                                                                         *)
(* Strings are modelled as tuples of one-character strings, so that the    *)
(* string operations of the source (rfind, find, substr, SimpleAtoi,       *)
(* asString) are computed as the code computes them.                       *)
(***************************************************************************)
EXTENDS Integers, Sequences, FiniteSets, TLC

VARIABLES
    cluster_,                          \* ThreadLocalPool::cluster_ (0 = nullptr, else generation)
    host_set_member_update_cb_handle_, \* 0 = nullptr, else generation the handle belongs to
    client_map_,                       \* host -> index of its redis client in redis_clients
    host_address_map_,                 \* address string -> host
    redis_clients,                     \* every client the factory created, in creation order
    new_hosts,                         \* hosts created by makeRequestToHost (their asString())
    deferred_delete,                   \* dispatcher_: clients handed to deferredDelete, not yet destroyed
    member_update_cbs,                 \* generations whose priority set holds a callback of this pool
    hosts,                             \* hosts() of the current cluster's priority set
    hosts_removed_seen,                \* hosts reported removed since the last cluster add
    cm_cluster,                        \* cluster manager: generation of the named cluster, 0 = none
    generation,                        \* number of ThreadLocalCluster objects the cluster manager made
    assert_failed,                     \* an ASSERT of the source evaluated to false
    hung,                              \* a close-all loop of the pool did not come to an end
    last,                              \* the last call into the pool and what it returned
    hk,                                \* hashtag() harness: key, enabled flag, result
    tls,                               \* tls_: worker thread -> its ThreadLocalPool and what it sees
    thread                             \* the worker thread the last step ran on (0 = none)

vars == << cluster_, host_set_member_update_cb_handle_, client_map_, host_address_map_,
           redis_clients, new_hosts, deferred_delete, member_update_cbs, hosts,
           hosts_removed_seen, cm_cluster, generation, assert_failed, hung, last, hk,
           tls, thread >>

---------------------------------------------------------------------------
(* Bounds of the model.                                                    *)

\* clients the connection factory may create in one behaviour
MaxClients == 2
\* hosts makeRequestToHost may create in one behaviour
MaxNewHosts == 1
\* cluster generations the cluster manager may announce in one behaviour
MaxGenerations == 2
\* longest key handed to hashtag()
MaxKeyLen == 4

---------------------------------------------------------------------------
(* Strings.                                                                *)

\* std::string::npos: positions are 1-based here, so 0 is "not found"
npos == 0

\* the largest port makeRequestToHost accepts
MaxPort == 65535

\* s.find(ch, from): the first position >= from holding ch, or npos
find(s, ch, from) ==
    LET hits == { i \in from..Len(s) : s[i] = ch }
    IN  IF hits = {} THEN npos ELSE CHOOSE i \in hits : \A j \in hits : i <= j

\* s.rfind(ch): the last position holding ch, or npos
rfind(s, ch) ==
    LET hits == { i \in 1..Len(s) : s[i] = ch }
    IN  IF hits = {} THEN npos ELSE CHOOSE i \in hits : \A j \in hits : i >= j

\* s.substr(pos, n) for 1-based pos: n characters from pos
substr(s, pos, n) == SubSeq(s, pos, pos + n - 1)

---------------------------------------------------------------------------
(* Hash Key Extractor.                                                     *)

\* hashtag with the closing brace searched from the start of the key
hashtag_searchesFromStart(v, enabled) ==
    IF ~enabled THEN v
    ELSE LET start == find(v, "{", 1)
         IN  IF start = npos THEN v
             ELSE LET end == find(v, "}", 1)
                  IN  IF end = npos \/ end = start + 1 THEN v
                      ELSE substr(v, start + 1, end - start - 1)

\* InstanceImpl::LbContextImpl::hashtag
hashtag(v, enabled) ==
    IF ~enabled THEN v
    ELSE LET start == find(v, "{", 1)
         IN  IF start = npos THEN v
             ELSE LET end == find(v, "}", start)
                  IN  IF end = npos \/ end = start + 1 THEN v
                      ELSE substr(v, start + 1, end - start - 1)

---------------------------------------------------------------------------
(* Addresses (Network::Address).  A host literal is one token: "a" and "b" *)
(* stand for well-formed dotted quads, "c" and "C" for a hexadecimal group *)
(* of an IPv6 literal written in lower and in upper case; every other      *)
(* letter is a literal the address constructors reject.                    *)

Digits == << "0", "1", "2", "3", "4", "5", "6", "7", "8", "9" >>

IsDigit(ch) == \E d \in 1..Len(Digits) : Digits[d] = ch

DigitValue(ch) == (CHOOSE d \in 1..Len(Digits) : Digits[d] = ch) - 1

RECURSIVE DecimalValue(_)
DecimalValue(s) ==
    IF s = << >> THEN 0
    ELSE 10 * DecimalValue(SubSeq(s, 1, Len(s) - 1)) + DigitValue(s[Len(s)])

\* absl::SimpleAtoi into a uint64_t: the value, or -1 where it returns false
SimpleAtoi(s) ==
    IF s # << >> /\ \A i \in 1..Len(s) : IsDigit(s[i]) THEN DecimalValue(s) ELSE -1

\* the decimal text of a port number, as asString() prints it
RECURSIVE PortString(_)
PortString(n) ==
    IF n < 10 THEN << Digits[n + 1] >>
    ELSE PortString(n \div 10) \o << Digits[(n % 10) + 1] >>

Ipv4Literals == { << "a" >>, << "b" >> }

Lower(ch) == IF ch = "C" THEN "c" ELSE ch

IsIpv6Literal(ip) == Len(ip) = 3 /\ ip[1] \in {"c", "C"} /\ ip[2] = ":" /\ ip[3] \in {"c", "C"}

\* Ipv4Instance(ip, port)->asString(), or << >> where the constructor throws
Ipv4Instance(ip, port) ==
    IF ip \in Ipv4Literals THEN ip \o << ":" >> \o PortString(port) ELSE << >>

\* Ipv6Instance(ip, port)->asString(), or << >> where the constructor throws
Ipv6Instance(ip, port) ==
    IF IsIpv6Literal(ip)
    THEN << "[" >> \o [i \in 1..3 |-> Lower(ip[i])] \o << "]", ":" >> \o PortString(port)
    ELSE << >>

---------------------------------------------------------------------------
(* Hosts.  The cluster manager owns the hosts of ClusterHosts; a host is   *)
(* an object, identified here by a number.  Hosts that makeRequestToHost   *)
(* creates are numbered after them, in creation order.                     *)

ClusterHosts == {1, 2}

\* host->address()->asString() of a cluster manager host: an IPv4 address
\* and an IPv6 address
ClusterHostAddress(h) ==
    CASE h = 1 -> Ipv4Instance(<< "a" >>, 1)
      [] h = 2 -> Ipv6Instance(<< "c", ":", "c" >>, 1)

NewHostId(i) == Cardinality(ClusterHosts) + i

\* the name the pool is bound to, and the name of some other cluster
cluster_name_ == "redis"
ClusterNames == { cluster_name_, "other" }

\* a map with no entry
EmptyMap == [k \in {} |-> 0]

MapPut(m, k, v) == [x \in DOMAIN m \cup {k} |-> IF x = k THEN v ELSE m[x]]

MapErase(m, k) == [x \in DOMAIN m \ {k} |-> m[x]]

---------------------------------------------------------------------------
(* The thread's state as one value, so that a handler is a function from   *)
(* the state before the call to the state after it.  ret is the handler's  *)
(* return value (the client the request went to, 0 for nullptr) and host   *)
(* the host it resolved (0 for none).                                      *)

World ==
    [ cluster_ |-> cluster_,
      host_set_member_update_cb_handle_ |-> host_set_member_update_cb_handle_,
      client_map_ |-> client_map_,
      host_address_map_ |-> host_address_map_,
      redis_clients |-> redis_clients,
      new_hosts |-> new_hosts,
      deferred_delete |-> deferred_delete,
      member_update_cbs |-> member_update_cbs,
      assert_failed |-> assert_failed,
      hung |-> hung,
      ret |-> 0,
      host |-> 0 ]

\* host->address()->asString()
HostAddress(w, h) ==
    IF h \in ClusterHosts THEN ClusterHostAddress(h)
    ELSE w.new_hosts[h - Cardinality(ClusterHosts)]

\* ASSERT(cond)
ASSERT_(w, cond) == IF cond THEN w ELSE [w EXCEPT !.assert_failed = TRUE]

---------------------------------------------------------------------------
(* Collaborators: the connection factory, a redis client, the dispatcher.  *)

\* client_factory_.create(host, ...): a new client, open, never closed
create(w, h) ==
    [w EXCEPT !.redis_clients =
        Append(@, [host |-> h, close_calls |-> 0, closed |-> FALSE,
                   deferred |-> 0, destroyed |-> FALSE])]

\* dispatcher_.deferredDelete(std::move(redis_client_))
deferredDelete(w, c) ==
    [w EXCEPT !.deferred_delete = @ \cup {c},
              !.redis_clients[c].deferred = @ + 1]

\* onEvent with the erase of the map entry forgotten
onEvent_keepsEntry(w, c, event) ==
    IF event \in {"RemoteClose", "LocalClose"}
    THEN LET host_ == w.redis_clients[c].host
         IN  IF host_ \notin DOMAIN w.client_map_ THEN ASSERT_(w, FALSE)
             ELSE deferredDelete(w, w.client_map_[host_])
    ELSE w

\* onEvent with the client destroyed with its map entry, not handed to the
\* dispatcher
onEvent_destroysInline(w, c, event) ==
    IF event \in {"RemoteClose", "LocalClose"}
    THEN LET host_ == w.redis_clients[c].host
         IN  IF host_ \notin DOMAIN w.client_map_ THEN ASSERT_(w, FALSE)
             ELSE [w EXCEPT !.client_map_ = MapErase(@, host_),
                            !.redis_clients[w.client_map_[host_]].host = 0]
    ELSE w

\* onEvent with the redis client deleted at once, not handed to the dispatcher
onEvent_deletesNow(w, c, event) ==
    IF event \in {"RemoteClose", "LocalClose"}
    THEN LET host_ == w.redis_clients[c].host
         IN  IF host_ \notin DOMAIN w.client_map_ THEN ASSERT_(w, FALSE)
             ELSE [w EXCEPT !.client_map_ = MapErase(@, host_),
                            !.redis_clients[w.client_map_[host_]].host = 0,
                            !.redis_clients[w.client_map_[host_]].deferred = @ + 1,
                            !.redis_clients[w.client_map_[host_]].destroyed = TRUE]
    ELSE w

\* onEvent that handles RemoteClose only
onEvent_ignoresLocalClose(w, c, event) ==
    IF event = "RemoteClose"
    THEN LET host_ == w.redis_clients[c].host
         IN  IF host_ \notin DOMAIN w.client_map_ THEN ASSERT_(w, FALSE)
             ELSE LET d == deferredDelete(w, w.client_map_[host_])
                  IN  [d EXCEPT !.client_map_ = MapErase(@, host_),
                                !.redis_clients[w.client_map_[host_]].host = 0]
    ELSE w

\* onEvent without the test of the event
onEvent_anyEvent(w, c, event) ==
    LET host_ == w.redis_clients[c].host
    IN  IF host_ \notin DOMAIN w.client_map_ THEN ASSERT_(w, FALSE)
        ELSE LET d == deferredDelete(w, w.client_map_[host_])
             IN  [d EXCEPT !.client_map_ = MapErase(@, host_),
                           !.redis_clients[w.client_map_[host_]].host = 0]

\* InstanceImpl::ThreadLocalActiveClient::onEvent, of the active client that
\* wraps redis client c.  Erasing the map entry destroys the active client
\* and its host_ with it; the redis client lives on in the dispatcher's list.
onEvent(w, c, event) ==
    IF event \in {"RemoteClose", "LocalClose"}
    THEN LET host_ == w.redis_clients[c].host
             found == host_ \in DOMAIN w.client_map_
         IN  IF ~found THEN ASSERT_(w, FALSE)
             ELSE LET d == deferredDelete(w, w.client_map_[host_])
                  IN  [d EXCEPT !.client_map_ = MapErase(@, host_),
                                !.redis_clients[w.client_map_[host_]].host = 0]
    ELSE w

\* redis_client_->close(): closes the connection, which raises LocalClose to
\* the connection callbacks before close() returns; a connection that is
\* already closed raises nothing
close(w, c) ==
    LET n == [w EXCEPT !.redis_clients[c].close_calls = @ + 1]
    IN  IF w.redis_clients[c].closed THEN n
        ELSE onEvent([n EXCEPT !.redis_clients[c].closed = TRUE], c, "LocalClose")

---------------------------------------------------------------------------
(* InstanceImpl::ThreadLocalPool.                                          *)

\* client_map_.begin()->first: the map is ordered by the hosts' pointers
begin(m) == CHOOSE h \in DOMAIN m : \A g \in DOMAIN m : h <= g

\* while (!client_map_.empty()) { client_map_.begin()->second->redis_client_->close(); }
\* fuel is the number of iterations after which the loop is taken to go on for ever
RECURSIVE closeAllClients(_, _)
closeAllClients(w, fuel) ==
    IF DOMAIN w.client_map_ = {} THEN w
    ELSE IF fuel = 0 THEN [w EXCEPT !.hung = TRUE]
    ELSE closeAllClients(close(w, w.client_map_[begin(w.client_map_)]), fuel - 1)

\* InstanceImpl::ThreadLocalPool::~ThreadLocalPool
destroyThreadLocalPool(w) ==
    LET r == IF w.host_set_member_update_cb_handle_ # 0
             THEN [w EXCEPT !.member_update_cbs = @ \ {w.host_set_member_update_cb_handle_}]
             ELSE w
    IN  closeAllClients(r, Len(r.redis_clients) + 1)

\* onClusterRemoval without the test of the name
onClusterRemoval_anyName(w, cluster_name) ==
    LET c == closeAllClients(w, Len(w.redis_clients) + 1)
    IN  [c EXCEPT !.cluster_ = 0,
                  !.host_set_member_update_cb_handle_ = 0,
                  !.host_address_map_ = EmptyMap]

\* onClusterRemoval with host_address_map_.clear() forgotten
onClusterRemoval_keepsIndex(w, cluster_name) ==
    IF cluster_name # cluster_name_ THEN w
    ELSE LET c == closeAllClients(w, Len(w.redis_clients) + 1)
         IN  [c EXCEPT !.cluster_ = 0,
                       !.host_set_member_update_cb_handle_ = 0]

\* onClusterRemoval with the handle left as it is
onClusterRemoval_keepsHandle(w, cluster_name) ==
    IF cluster_name # cluster_name_ THEN w
    ELSE LET c == closeAllClients(w, Len(w.redis_clients) + 1)
         IN  [c EXCEPT !.cluster_ = 0,
                       !.host_address_map_ = EmptyMap]

\* InstanceImpl::ThreadLocalPool::onClusterRemoval
onClusterRemoval(w, cluster_name) ==
    IF cluster_name # cluster_name_ THEN w
    ELSE LET c == closeAllClients(w, Len(w.redis_clients) + 1)
         IN  [c EXCEPT !.cluster_ = 0,
                       !.host_set_member_update_cb_handle_ = 0,
                       !.host_address_map_ = EmptyMap]

\* for (auto& host : ...->hosts()) { host_address_map_[host->address()->asString()] = host; }
RECURSIVE indexHosts(_, _)
indexHosts(w, hs) ==
    IF hs = << >> THEN w
    ELSE indexHosts([w EXCEPT !.host_address_map_ = MapPut(@, HostAddress(w, Head(hs)), Head(hs))],
                    Tail(hs))

\* InstanceImpl::ThreadLocalPool::onClusterAddOrUpdateNonVirtual; cluster is
\* [name, generation, hosts]: the ThreadLocalCluster and the hosts of its priority set
onClusterAddOrUpdateNonVirtual(w, cluster) ==
    IF cluster.name # cluster_name_ THEN w
    ELSE LET r  == IF w.cluster_ # 0 THEN onClusterRemoval(w, cluster_name_) ELSE w
             a1 == ASSERT_(r, r.cluster_ = 0)
             a2 == ASSERT_(a1, a1.host_set_member_update_cb_handle_ = 0)
             s  == [a2 EXCEPT !.cluster_ = cluster.generation,
                              !.host_set_member_update_cb_handle_ = cluster.generation,
                              !.member_update_cbs = @ \cup {cluster.generation}]
             a3 == ASSERT_(s, DOMAIN s.host_address_map_ = {})
         IN  indexHosts(a3, cluster.hosts)

\* onHostsRemoved with the erase from host_address_map_ forgotten
RECURSIVE onHostsRemoved_keepsIndex(_, _)
onHostsRemoved_keepsIndex(w, hosts_removed) ==
    IF hosts_removed = << >> THEN w
    ELSE LET host == Head(hosts_removed)
             c == IF host \in DOMAIN w.client_map_ THEN close(w, w.client_map_[host]) ELSE w
         IN  onHostsRemoved_keepsIndex(c, Tail(hosts_removed))

\* InstanceImpl::ThreadLocalPool::onHostsRemoved
RECURSIVE onHostsRemoved(_, _)
onHostsRemoved(w, hosts_removed) ==
    IF hosts_removed = << >> THEN w
    ELSE LET host == Head(hosts_removed)
             c == IF host \in DOMAIN w.client_map_ THEN close(w, w.client_map_[host]) ELSE w
             e == [c EXCEPT !.host_address_map_ = MapErase(@, HostAddress(c, host))]
         IN  onHostsRemoved(e, Tail(hosts_removed))

\* forwardToHost without the test for an existing client
forwardToHost_alwaysCreates(w, h) ==
    LET n == create(w, h)
        c == [n EXCEPT !.client_map_ = MapPut(@, h, Len(n.redis_clients))]
    IN  [c EXCEPT !.ret = c.client_map_[h], !.host = h]

\* ThreadLocalActiveClientPtr& client = client_map_[host]; if (!client) { ... create ... }
\* followed by: return client->redis_client_->makeRequest(request, callbacks);
forwardToHost(w, h) ==
    LET c == IF h \in DOMAIN w.client_map_ THEN w
             ELSE LET n == create(w, h)
                  IN  [n EXCEPT !.client_map_ = MapPut(@, h, Len(n.redis_clients))]
    IN  [c EXCEPT !.ret = c.client_map_[h], !.host = h]

\* if (cluster_ == nullptr) { ASSERT(...); ASSERT(...); return nullptr; }
noCluster(w) ==
    ASSERT_(ASSERT_(w, DOMAIN w.client_map_ = {}), w.host_set_member_update_cb_handle_ = 0)

\* makeRequest without the step that keeps host_address_map_ in sync
makeRequest_noSync(w, chosen) ==
    IF w.cluster_ = 0 THEN noCluster(w)
    ELSE IF chosen = 0 THEN w
    ELSE forwardToHost(w, chosen)

\* InstanceImpl::ThreadLocalPool::makeRequest; chosen is what
\* cluster_->loadBalancer().chooseHost(&lb_context) returns (0 for none)
makeRequest(w, chosen) ==
    IF w.cluster_ = 0 THEN noCluster(w)
    ELSE IF chosen = 0 THEN w
    ELSE LET f == forwardToHost(w, chosen)
             a == HostAddress(f, chosen)
         IN  IF a \in DOMAIN f.host_address_map_ THEN f
             ELSE [f EXCEPT !.host_address_map_ = MapPut(@, a, chosen)]

\* new Upstream::HostImpl(cluster_->info(), "", address_ptr, ...), entered in
\* host_address_map_ under key
newHost(w, key, address) ==
    LET n == [w EXCEPT !.new_hosts = Append(@, address)]
    IN  [n EXCEPT !.host_address_map_ = MapPut(@, key, NewHostId(Len(n.new_hosts)))]

\* the port check without its upper limit
validPort_noLimit(ip_port_number) == ip_port_number >= 0

\* !(!absl::SimpleAtoi(ip_port, &ip_port_number) || (ip_port_number > 65535))
validPort(ip_port_number) == ip_port_number >= 0 /\ ip_port_number <= MaxPort

\* InstanceImpl::ThreadLocalPool::makeRequestToHost
makeRequestToHost(w, host_address) ==
    IF w.cluster_ = 0 THEN noCluster(w)
    ELSE
    LET colon_pos == rfind(host_address, ":")
    IN  IF colon_pos = npos \/ colon_pos = Len(host_address) THEN w
        ELSE
        LET ip_address == SubSeq(host_address, 1, colon_pos - 1)
            ipv6 == find(ip_address, ":", 1) # npos
            ip_port == SubSeq(host_address, colon_pos + 1, Len(host_address))
            ip_port_number == SimpleAtoi(ip_port)
            address == IF ~validPort(ip_port_number) THEN << >>
                       ELSE IF ipv6 THEN Ipv6Instance(ip_address, ip_port_number)
                       ELSE Ipv4Instance(ip_address, ip_port_number)
            host_address_map_key == IF ipv6 THEN address ELSE host_address
        IN  IF ipv6 /\ address = << >> THEN w
            ELSE IF host_address_map_key \in DOMAIN w.host_address_map_
            THEN forwardToHost(w, w.host_address_map_[host_address_map_key])
            ELSE IF address = << >> THEN w
            ELSE LET n == newHost(w, host_address_map_key, address)
                 IN  forwardToHost(n, n.host_address_map_[host_address_map_key])

---------------------------------------------------------------------------
(* The state after construction.                                           *)

\* all sequences over S of length at most n
SeqsUpTo(S, n) == UNION { [1..k -> S] : k \in 0..n }

\* the hosts of a priority set, in the order hosts() lists them
RECURSIVE HostList(_)
HostList(S) ==
    IF S = {} THEN << >>
    ELSE LET h == CHOOSE x \in S : \A y \in S : x <= y
         IN  << h >> \o HostList(S \ {h})

\* last when the last step was no request: a handler that returns nothing
NoCall == [op |-> "none", ret |-> 0]

NoKey == [key |-> << >>, enabled |-> FALSE, result |-> << >>, done |-> FALSE]

\* the members of a pool before the constructor's body runs
Constructed ==
    [ cluster_ |-> 0,
      host_set_member_update_cb_handle_ |-> 0,
      client_map_ |-> EmptyMap,
      host_address_map_ |-> EmptyMap,
      redis_clients |-> << >>,
      new_hosts |-> << >>,
      deferred_delete |-> {},
      member_update_cbs |-> {},
      assert_failed |-> FALSE,
      hung |-> FALSE,
      ret |-> 0,
      host |-> 0 ]

\* InstanceImpl::ThreadLocalPool::ThreadLocalPool; found is what
\* parent_.cm_.get(cluster_name_) returns: << >> for nullptr, else << cluster >>
ThreadLocalPool(found) ==
    IF found = << >> THEN Constructed
    ELSE onClusterAddOrUpdateNonVirtual(Constructed, found[1])

StartsAs(w) ==
    /\ cluster_ = w.cluster_
    /\ host_set_member_update_cb_handle_ = w.host_set_member_update_cb_handle_
    /\ client_map_ = w.client_map_
    /\ host_address_map_ = w.host_address_map_
    /\ redis_clients = w.redis_clients
    /\ new_hosts = w.new_hosts
    /\ deferred_delete = w.deferred_delete
    /\ member_update_cbs = w.member_update_cbs
    /\ assert_failed = w.assert_failed
    /\ hung = w.hung

\* the pool is constructed either before the cluster manager knows the
\* cluster, or while it holds the cluster's first generation
Init ==
    /\ last = NoCall
    /\ hk = NoKey
    /\ tls = << >>
    /\ thread = 0
    /\ hosts_removed_seen = {}
    /\ \/ /\ cm_cluster = 0
          /\ generation = 0
          /\ hosts = {}
          /\ StartsAs(ThreadLocalPool(<< >>))
       \/ \E H \in SUBSET ClusterHosts :
          /\ cm_cluster = 1
          /\ generation = 1
          /\ hosts = H
          /\ StartsAs(ThreadLocalPool(
                 << [name |-> cluster_name_, generation |-> 1, hosts |-> HostList(H)] >>))

---------------------------------------------------------------------------
(* Steps.  Every step is one callback run to completion on the pool's      *)
(* thread.                                                                 *)

\* the state a handler left behind; op names a request, whose return value
\* is kept, or a notification about a cluster of another name, and is "none"
\* for every other handler that returns nothing
Returned(w, op) ==
    /\ Len(w.redis_clients) <= MaxClients
    /\ Len(w.new_hosts) <= MaxNewHosts
    /\ cluster_' = w.cluster_
    /\ host_set_member_update_cb_handle_' = w.host_set_member_update_cb_handle_
    /\ client_map_' = w.client_map_
    /\ host_address_map_' = w.host_address_map_
    /\ redis_clients' = w.redis_clients
    /\ new_hosts' = w.new_hosts
    /\ deferred_delete' = w.deferred_delete
    /\ member_update_cbs' = w.member_update_cbs
    /\ assert_failed' = w.assert_failed
    /\ hung' = w.hung
    /\ last' = IF op = "none" THEN NoCall ELSE [op |-> op, ret |-> w.ret]

\* the pool has not been destroyed
Alive == last.op # "~ThreadLocalPool"

\* a handler of the pool ran and left w behind
Commit(w, op) == Alive /\ Returned(w, op)

\* the keys callers route by, and the address strings they route to
HostAddressInputs ==
    { << "a", ":", "1" >>,                       \* IPv4, the address of host 1
      << "a", ":", "0", "1" >>,                  \* the same, port written 01
      << "c", ":", "c", ":", "1" >>,             \* IPv6, the address of host 2
      << "C", ":", "c", ":", "1" >>,             \* the same, written in upper case
      << "a" >>,                                 \* no colon
      << "a", ":" >>,                            \* trailing colon
      << "a", ":", "x" >>,                       \* port is no number
      << "a", ":", "7", "0", "0", "0", "0" >>,   \* port out of range
      << "z", ":", "1" >>,                       \* no IPv4 literal
      << "z", ":", "c", ":", "1" >>,             \* no IPv6 literal
      << "c", ":", "c", ":", "x" >> }            \* IPv6, port is no number

\* a caller's makeRequest; the load balancer picks among the cluster's hosts or
\* picks none
MakeRequest ==
    \E chosen \in hosts \cup {0} :
        /\ cluster_ # 0 \/ chosen = 0
        /\ Commit(makeRequest(World, chosen), "makeRequest")
        /\ UNCHANGED << hosts, hosts_removed_seen, cm_cluster, generation, hk, tls, thread >>

\* a caller's makeRequestToHost
MakeRequestToHost ==
    \E host_address \in HostAddressInputs :
        /\ Commit(makeRequestToHost(World, host_address), "makeRequestToHost")
        /\ UNCHANGED << hosts, hosts_removed_seen, cm_cluster, generation, hk, tls, thread >>

\* the cluster manager adds the cluster or replaces it by a new generation
\* (ClusterUpdateCallbacks::onClusterAddOrUpdate)
OnClusterAddOrUpdate ==
    \E name \in ClusterNames, H \in SUBSET ClusterHosts :
        LET g == IF name = cluster_name_ THEN generation + 1 ELSE 0
            cluster == [name |-> name, generation |-> g, hosts |-> HostList(H)]
        IN  /\ generation < MaxGenerations
            /\ name # cluster_name_ => H = ClusterHosts
            /\ Commit(onClusterAddOrUpdateNonVirtual(World, cluster),
                      IF name = cluster_name_ THEN "none" ELSE "onClusterAddOrUpdate")
            /\ IF name = cluster_name_
               THEN /\ generation' = g
                    /\ cm_cluster' = g
                    /\ hosts' = H
                    /\ hosts_removed_seen' = {}
               ELSE UNCHANGED << hosts, hosts_removed_seen, cm_cluster, generation >>
            /\ UNCHANGED << hk, tls, thread >>

\* the cluster manager removes a cluster it holds
OnClusterRemoval ==
    \E name \in ClusterNames :
        /\ name = cluster_name_ => cm_cluster # 0
        /\ Commit(onClusterRemoval(World, name),
                  IF name = cluster_name_ THEN "none" ELSE "onClusterRemoval")
        /\ IF name = cluster_name_
           THEN cm_cluster' = 0 /\ hosts' = {} /\ hosts_removed_seen' = {}
           ELSE UNCHANGED << hosts, hosts_removed_seen, cm_cluster >>
        /\ UNCHANGED << generation, hk, tls, thread >>

\* the hosts_removed vectors of a member update: no host, one, or two, which
\* may be the same host twice
RemovedLists(S) == { << >> } \cup { << x >> : x \in S } \cup { << x, y >> : x \in S, y \in S }

\* the priority set of generation g runs its member update callbacks: the
\* pool's callback, if it is registered there, calls onHostsRemoved
runCallbacks(w, g, hosts_removed) ==
    IF g \in w.member_update_cbs THEN onHostsRemoved(w, hosts_removed) ELSE w

\* the current cluster's priority set changes and runs its member update
\* callbacks; a host object that left the set does not come back to it
MemberUpdate ==
    \E added \in SUBSET (ClusterHosts \ (hosts \cup hosts_removed_seen)),
       hosts_removed \in RemovedLists(hosts) :
        LET gone == { hosts_removed[i] : i \in 1..Len(hosts_removed) }
        IN  /\ cm_cluster # 0
            /\ added # {} \/ hosts_removed # << >>
            /\ Commit(runCallbacks(World, cm_cluster, hosts_removed), "none")
            /\ hosts' = (hosts \ gone) \cup added
            /\ hosts_removed_seen' = hosts_removed_seen \cup gone
            /\ UNCHANGED << cm_cluster, generation, hk, tls, thread >>

\* an open connection raises an event to its callbacks
ConnectionEvent ==
    \E c \in 1..Len(redis_clients), event \in {"RemoteClose", "Connected"} :
        /\ ~redis_clients[c].closed
        /\ Commit(onEvent([World EXCEPT !.redis_clients[c].closed = (event = "RemoteClose")],
                          c, event),
                  "none")
        /\ UNCHANGED << hosts, hosts_removed_seen, cm_cluster, generation, hk, tls, thread >>

\* the dispatcher ends a turn of the event loop and destroys what was handed
\* to deferredDelete
ClearDeferredDeleteList ==
    /\ deferred_delete # {}
    /\ Returned([World EXCEPT !.deferred_delete = {},
                              !.redis_clients = [c \in DOMAIN @ |->
                                  IF c \in deferred_delete
                                  THEN [@[c] EXCEPT !.destroyed = TRUE] ELSE @[c]]],
                IF Alive THEN "none" ELSE last.op)
    /\ UNCHANGED << hosts, hosts_removed_seen, cm_cluster, generation, hk, tls, thread >>

\* the pool is destroyed with its worker's slot; nothing calls it afterwards
Destroy ==
    /\ Commit(destroyThreadLocalPool(World), "~ThreadLocalPool")
    /\ UNCHANGED << hosts, hosts_removed_seen, cm_cluster, generation, hk, tls, thread >>

Next ==
    \/ MakeRequest
    \/ MakeRequestToHost
    \/ OnClusterAddOrUpdate
    \/ OnClusterRemoval
    \/ MemberUpdate
    \/ ConnectionEvent
    \/ Destroy

\* The keys hashtag() is called with: the braces and one other character
KeyAlphabet == { "{", "}", "a" }

Keys == SeqsUpTo(KeyAlphabet, MaxKeyLen)

\* a caller is about to compute the hash key of some key; the pool is as constructed
HashtagInit ==
    /\ hk \in [key : Keys, enabled : BOOLEAN, result : { << >> }, done : { FALSE }]
    /\ tls = << >>
    /\ thread = 0
    /\ last = NoCall
    /\ hosts_removed_seen = {}
    /\ cm_cluster = 0
    /\ generation = 0
    /\ hosts = {}
    /\ StartsAs(ThreadLocalPool(<< >>))

\* makeRequest: LbContextImpl lb_context(key, enableHashtagging()) computes
\* hashtag(key, enabled)
HashtagCall ==
    /\ ~hk.done
    /\ hk' = [hk EXCEPT !.result = hashtag(hk.key, hk.enabled), !.done = TRUE]
    /\ UNCHANGED << cluster_, host_set_member_update_cb_handle_, client_map_,
                    host_address_map_, redis_clients, new_hosts, deferred_delete,
                    member_update_cbs, hosts, hosts_removed_seen, cm_cluster, generation,
                    assert_failed, hung, last, tls, thread >>

\* hashtag() applied to every key and flag
HashtagSpec == HashtagInit /\ [][HashtagCall]_vars

\* The pool and its callers.  Destroying a client that was handed to
\* deferredDelete touches nothing a handler of the pool reads, so the turns of
\* the event loop are left to TurnSpec.
Spec == Init /\ [][Next]_vars

TurnNext == Next \/ ClearDeferredDeleteList

\* The pool, its callers and the dispatcher, which runs its deferred deletion
\* whenever something waits for it.
TurnSpec == Init /\ [][TurnNext]_vars /\ WF_vars(ClearDeferredDeleteList)

---------------------------------------------------------------------------
(* Vocabulary of the properties.                                           *)

\* the clients that have not raised their close event
OpenClients == { c \in 1..Len(redis_clients) : ~redis_clients[c].closed }

\* the clients client_map_ holds
MappedClients == { client_map_[h] : h \in DOMAIN client_map_ }

\* the last step was a request that was forwarded to a client
Forwarded == last.op \in {"makeRequest", "makeRequestToHost"} /\ last.ret # 0

\* the last step was a request that returned nullptr
ReturnedNull == last.op \in {"makeRequest", "makeRequestToHost"} /\ last.ret = 0

\* the hosts makeRequestToHost created
NewHosts == { NewHostId(i) : i \in 1..Len(new_hosts) }

\* the state w as a caller finds it: no return value yet
Before(w) == [w EXCEPT !.ret = 0, !.host = 0]

\* the address string a caller passes to makeRequestToHost to reach the
\* address of cluster host h
DirectAddress(h) ==
    CASE h = 1 -> << "a", ":", "1" >>
      [] h = 2 -> << "c", ":", "c", ":", "1" >>

\* the pool follows the cluster manager, and no ASSERT failed and no loop hung
Sane ==
    /\ cluster_ = cm_cluster
    /\ ~assert_failed
    /\ ~hung
    /\ \A h \in DOMAIN client_map_ : client_map_[h] \in 1..Len(redis_clients)

---------------------------------------------------------------------------
(* Worker threads.  InstanceImpl keeps one ThreadLocalPool per worker in    *)
(* its slot tls_; every worker has its own dispatcher, and the cluster      *)
(* manager delivers its notifications to each worker on its own.  The      *)
(* hosts of the cluster are shared by the workers; a client and a host     *)
(* that makeRequestToHost created belong to the pool that created them.    *)

Threads == {1, 2}

\* the pool of a worker, and the cluster as the cluster manager shows it to
\* that worker
ThreadState(w, H, cm, g, seen) ==
    [pool |-> Before(w), hosts |-> H, cm_cluster |-> cm, generation |-> g,
     hosts_removed_seen |-> seen]

\* getTyped with one pool for all workers
getTyped_onePool(t) == 1

\* tls_->getTyped<ThreadLocalPool>(), called on worker t: the pool object that
\* the slot holds for t, named by the worker that constructed it
getTyped(t) == t

\* tls_->set(...): every worker constructs its pool, with the cluster's first
\* generation present
ThreadsInit ==
    /\ tls = [t \in Threads |->
                ThreadState(ThreadLocalPool(<< [name |-> cluster_name_, generation |-> 1,
                                                hosts |-> HostList(ClusterHosts)] >>),
                            ClusterHosts, 1, 1, {})]
    /\ thread = 0
    /\ hk = NoKey
    /\ last = NoCall
    /\ hosts_removed_seen = {}
    /\ cm_cluster = 0
    /\ generation = 0
    /\ hosts = {}
    /\ StartsAs(ThreadLocalPool(<< >>))

\* the sum of count[t] over the workers of T
RECURSIVE Total(_, _)
Total(count, T) ==
    IF T = {} THEN 0
    ELSE LET t == CHOOSE x \in T : TRUE
         IN  count[t] + Total(count, T \ {t})

ClientsCreated(slot) == [t \in Threads |-> Len(slot[t].pool.redis_clients)]

HostsCreated(slot) == [t \in Threads |-> Len(slot[t].pool.new_hosts)]

ClustersSeen(slot) == [t \in Threads |-> slot[t].generation]

\* worker t ran a handler on the pool in slot u, which left r behind; the
\* client factory and the cluster manager are shared by the workers, and so
\* are the bounds on what they make
Ran(t, u, r) ==
    /\ Total(ClientsCreated([tls EXCEPT ![u] = r]), Threads) <= MaxClients
    /\ Total(HostsCreated([tls EXCEPT ![u] = r]), Threads) <= MaxNewHosts
    /\ Total(ClustersSeen([tls EXCEPT ![u] = r]), Threads) <= MaxGenerations + 1
    /\ tls' = [tls EXCEPT ![u] = r]
    /\ thread' = t
    /\ UNCHANGED << cluster_, host_set_member_update_cb_handle_, client_map_,
                    host_address_map_, redis_clients, new_hosts, deferred_delete,
                    member_update_cbs, hosts, hosts_removed_seen, cm_cluster, generation,
                    assert_failed, hung, last, hk >>

\* InstanceImpl::makeRequest on worker t
ThreadMakeRequest ==
    \E t \in Threads :
        LET u == getTyped(t)
            r == tls[u]
        IN  \E chosen \in r.hosts \cup {0} :
                /\ r.pool.cluster_ # 0 \/ chosen = 0
                /\ Ran(t, u, [r EXCEPT !.pool = Before(makeRequest(r.pool, chosen))])

\* InstanceImpl::makeRequestToHost on worker t
ThreadMakeRequestToHost ==
    \E t \in Threads, host_address \in HostAddressInputs :
        LET u == getTyped(t)
            r == tls[u]
        IN  Ran(t, u, [r EXCEPT !.pool = Before(makeRequestToHost(r.pool, host_address))])

\* the cluster manager tells worker t of a new generation of the cluster
ThreadClusterAddOrUpdate ==
    \E t \in Threads, H \in SUBSET ClusterHosts :
        LET r == tls[t]
            g == r.generation + 1
            cluster == [name |-> cluster_name_, generation |-> g, hosts |-> HostList(H)]
        IN  Ran(t, t, ThreadState(onClusterAddOrUpdateNonVirtual(r.pool, cluster), H, g, g, {}))

\* the cluster manager tells worker t that the cluster is gone
ThreadClusterRemoval ==
    \E t \in Threads :
        LET r == tls[t]
        IN  /\ r.cm_cluster # 0
            /\ Ran(t, t, ThreadState(onClusterRemoval(r.pool, cluster_name_), {}, 0,
                                     r.generation, {}))

\* the priority set of worker t loses hosts and runs its member update callbacks
ThreadMemberUpdate ==
    \E t \in Threads :
        LET r == tls[t]
        IN  \E hosts_removed \in RemovedLists(r.hosts) :
                LET gone == { hosts_removed[i] : i \in 1..Len(hosts_removed) }
                IN  /\ r.cm_cluster # 0
                    /\ hosts_removed # << >>
                    /\ Ran(t, t, ThreadState(runCallbacks(r.pool, r.cm_cluster, hosts_removed),
                                             r.hosts \ gone, r.cm_cluster, r.generation,
                                             r.hosts_removed_seen \cup gone))

\* an open connection of worker t raises an event on t's dispatcher
ThreadConnectionEvent ==
    \E t \in Threads :
        LET r == tls[t]
        IN  \E c \in 1..Len(r.pool.redis_clients), event \in {"RemoteClose", "Connected"} :
                /\ ~r.pool.redis_clients[c].closed
                /\ Ran(t, t, [r EXCEPT !.pool =
                        onEvent([r.pool EXCEPT !.redis_clients[c].closed = (event = "RemoteClose")],
                                c, event)])

ThreadsNext ==
    \/ ThreadMakeRequest
    \/ ThreadMakeRequestToHost
    \/ ThreadClusterAddOrUpdate
    \/ ThreadClusterRemoval
    \/ ThreadMemberUpdate
    \/ ThreadConnectionEvent

\* the pools of all workers
ThreadsSpec == ThreadsInit /\ [][ThreadsNext]_vars

---------------------------------------------------------------------------
(* C1: a request is forwarded only to a client that client_map_ holds, that *)
(* has not raised its close event, and whose host was not reported removed  *)
(* since the last cluster add.                                              *)
C1_NoRequestToClosedOrRemoved ==
    Forwarded =>
        /\ last.ret \in MappedClients
        /\ ~redis_clients[last.ret].closed
        /\ redis_clients[last.ret].host \notin hosts_removed_seen

\* a request to the address of a removed host, whose client was closed, went
\* to a new host's client
C1_Witness ==
    /\ Forwarded
    /\ \E b \in hosts_removed_seen :
          /\ redis_clients[last.ret].host \in NewHosts
          /\ HostAddress(World, redis_clients[last.ret].host) = ClusterHostAddress(b)
    /\ \E c \in 1..Len(redis_clients) : redis_clients[c].closed /\ redis_clients[c].close_calls = 1

(* C2: close() is called at most once on every client, and a client is      *)
(* handed to deferredDelete exactly once when it raises its close event,    *)
(* and not before.                                                          *)
C2_TornDownOnce ==
    \A c \in 1..Len(redis_clients) :
        /\ redis_clients[c].close_calls <= 1
        /\ redis_clients[c].deferred = (IF redis_clients[c].closed THEN 1 ELSE 0)

\* one client was closed by the pool and another by its peer
C2_Witness ==
    \E c, d \in 1..Len(redis_clients) :
        /\ redis_clients[c].closed /\ redis_clients[c].close_calls = 1
        /\ redis_clients[d].closed /\ redis_clients[d].close_calls = 0

(* C3: client_map_ holds at most one client per host: every entry is an     *)
(* open client of its own host, and no two open clients are for one host.   *)
(* A request that resolves to a host with a client is forwarded on that     *)
(* client and creates none; and a makeRequestToHost that is forwarded,      *)
(* called again with the same string, resolves to the same host, goes to    *)
(* the same client and creates none.                                        *)
C3_OnePerHost ==
    /\ \A h \in DOMAIN client_map_ :
          /\ client_map_[h] \in OpenClients
          /\ redis_clients[client_map_[h]].host = h
    /\ \A c, d \in OpenClients : redis_clients[c].host = redis_clients[d].host => c = d
    /\ \A a \in HostAddressInputs :
          LET first == makeRequestToHost(World, a)
              second == makeRequestToHost(Before(first), a)
          IN  first.ret # 0 =>
                /\ second.ret = first.ret
                /\ second.host = first.host
                /\ second.redis_clients = first.redis_clients
                /\ second.new_hosts = first.new_hosts

C3_Reuse ==
    Forwarded' =>
        LET h == redis_clients'[last'.ret].host
        IN  h \in DOMAIN client_map_ =>
              /\ last'.ret = client_map_[h]
              /\ redis_clients' = redis_clients

C3_OneConnectionPerBackend == [](C3_OnePerHost) /\ [][C3_Reuse]_vars

\* a direct request was forwarded to a new host on a client that an earlier
\* step created, while the other host's client is held too
C3_Witness ==
    /\ last.op = "makeRequestToHost"
    /\ last.ret = 1
    /\ redis_clients[1].host \in NewHosts
    /\ Len(redis_clients) = 2
    /\ Cardinality(DOMAIN client_map_) = 2

(* C4: while the cluster manager holds no cluster of the pool's name after  *)
(* it removed one, client_map_ and host_address_map_ are empty, no client   *)
(* is open, and every request returns nullptr.                              *)
C4_RemovalClearsState ==
    (cm_cluster = 0 /\ generation > 0) =>
        /\ DOMAIN client_map_ = {}
        /\ DOMAIN host_address_map_ = {}
        /\ OpenClients = {}
        /\ last.op # "none" => last.ret = 0
        /\ \A chosen \in ClusterHosts \cup {0} : makeRequest(World, chosen).ret = 0
        /\ \A a \in HostAddressInputs : makeRequestToHost(World, a).ret = 0

\* after a removal that closed the client of a new host, a direct request
\* returned nullptr
C4_Witness ==
    /\ cm_cluster = 0
    /\ generation > 0
    /\ last.op = "makeRequestToHost"
    /\ last.ret = 0
    /\ new_hosts # << >>
    /\ \E c \in 1..Len(redis_clients) : redis_clients[c].close_calls = 1

(* C5: an update is a removal followed by an add.  In a step that replaces  *)
(* the tracked cluster by a new generation, every client that was open is   *)
(* closed by the pool, the removal leaves both maps empty before the index  *)
(* is rebuilt, and after the step client_map_ is empty, host_address_map_   *)
(* holds exactly the new hosts under their addresses, no ASSERT has failed, *)
(* and the only member update callback of the pool is the one registered    *)
(* with the new generation.                                                 *)
IsUpdate == cluster_ # 0 /\ generation' = generation + 1

\* host_address_map_ as built from the hosts of H alone
IndexOf(H) ==
    [a \in { ClusterHostAddress(h) : h \in H } |-> CHOOSE h \in H : ClusterHostAddress(h) = a]

C5_ClosesAndRebuilds ==
    IsUpdate =>
        /\ \A c \in OpenClients :
              /\ redis_clients'[c].closed
              /\ redis_clients'[c].close_calls = 1
              /\ redis_clients'[c].deferred = 1
        /\ LET r == onClusterRemoval(World, cluster_name_)
           IN  DOMAIN r.client_map_ = {} /\ DOMAIN r.host_address_map_ = {}
        /\ DOMAIN client_map_' = {}
        /\ host_address_map_' = IndexOf(hosts')
        /\ cluster_' = generation'
        /\ host_set_member_update_cb_handle_' = generation'
        /\ ~assert_failed'

C5_NoOldSubscription == IsUpdate => member_update_cbs' = { generation' }

C5_RemoveThenAdd == [][C5_ClosesAndRebuilds]_vars

C5_UpdateIsRemoveThenAdd == [][C5_ClosesAndRebuilds /\ C5_NoOldSubscription]_vars

(* C6: a host reported removed has no entry in client_map_, and the removal *)
(* leaves no entry under its address in host_address_map_.  A request to    *)
(* its address by makeRequestToHost is then forwarded to a client of a      *)
(* host that makeRequestToHost created, indexed under that address; while   *)
(* the address has no entry, the request creates that host and its client.  *)
C6_AfterRemoval ==
    \A b \in hosts_removed_seen :
        /\ b \notin DOMAIN client_map_
        /\ LET r == makeRequestToHost(World, DirectAddress(b))
               fresh == ClusterHostAddress(b) \notin DOMAIN host_address_map_
           IN  /\ r.ret # 0
               /\ r.host \notin ClusterHosts
               /\ r.redis_clients[r.ret].host = r.host
               /\ ~r.redis_clients[r.ret].closed
               /\ r.host_address_map_[ClusterHostAddress(b)] = r.host
               /\ fresh =>
                     /\ r.new_hosts = Append(new_hosts, ClusterHostAddress(b))
                     /\ r.host = NewHostId(Len(r.new_hosts))
                     /\ r.redis_clients = Append(redis_clients, r.redis_clients[r.ret])
                     /\ r.ret = Len(r.redis_clients)

C6_Removal ==
    \A b \in hosts_removed_seen' \ hosts_removed_seen :
        /\ b \notin DOMAIN client_map_'
        /\ ClusterHostAddress(b) \notin DOMAIN host_address_map_'

C6_RemovalConsistency == [](C6_AfterRemoval) /\ [][C6_Removal]_vars

\* host b had client 1, was removed, and a direct request to its address
\* created a host and client 2
C6_Witness ==
    /\ last.op = "makeRequestToHost"
    /\ last.ret = 2
    /\ redis_clients[1].close_calls = 1
    /\ \E b \in hosts_removed_seen :
          /\ ClusterHostAddress(b) \in DOMAIN host_address_map_
          /\ host_address_map_[ClusterHostAddress(b)] \in NewHosts
          /\ redis_clients[2].host = host_address_map_[ClusterHostAddress(b)]

(* C7: with a cluster tracked, makeRequestToHost with a string that has no  *)
(* colon, ends in a colon, has a port that is no unsigned number up to      *)
(* 65535, or has a host part that is no address literal, returns nullptr    *)
(* and changes nothing.                                                     *)
Malformed(a) ==
    \/ \A i \in 1..Len(a) : a[i] # ":"
    \/ a[Len(a)] = ":"
    \/ LET colon == CHOOSE i \in 1..Len(a) : a[i] = ":" /\ \A j \in (i + 1)..Len(a) : a[j] # ":"
           port == SubSeq(a, colon + 1, Len(a))
           literal == SubSeq(a, 1, colon - 1)
       IN  \/ SimpleAtoi(port) \notin 0..MaxPort
           \/ literal \notin Ipv4Literals /\ ~IsIpv6Literal(literal)

C7_MalformedAddressReturnsNull ==
    cluster_ # 0 =>
        \A a \in HostAddressInputs : Malformed(a) => makeRequestToHost(World, a) = World

\* a direct request returned nullptr while a cluster was tracked and the
\* maps held a host that makeRequestToHost created, and its client
C7_Witness ==
    /\ cluster_ # 0
    /\ last.op = "makeRequestToHost"
    /\ last.ret = 0
    /\ \E h \in DOMAIN client_map_ : h \in NewHosts
    /\ DOMAIN host_address_map_ # {}

(* C9: no ASSERT fails, and while cluster_ is nullptr client_map_ is empty, *)
(* the handle is nullptr, and makeRequest and makeRequestToHost return      *)
(* nullptr and change nothing, whatever the load balancer would choose and  *)
(* whatever the address is.                                                 *)
C9_NoClusterFailsFast ==
    /\ ~assert_failed
    /\ cluster_ = 0 =>
          /\ DOMAIN client_map_ = {}
          /\ host_set_member_update_cb_handle_ = 0
          /\ last.op # "none" => last.ret = 0
          /\ \A chosen \in ClusterHosts \cup {0} : makeRequest(World, chosen) = World
          /\ \A a \in HostAddressInputs : makeRequestToHost(World, a) = World

\* makeRequest returned nullptr after the cluster, which had a client, was removed
C9_Witness ==
    /\ cluster_ = 0
    /\ last.op = "makeRequest"
    /\ member_update_cbs # {}
    /\ \E c \in 1..Len(redis_clients) : redis_clients[c].close_calls = 1

(* C10: every host with an entry in client_map_ is a value of               *)
(* host_address_map_ or a host of the cluster.                              *)
C10_ClientsAreReachable ==
    \A h \in DOMAIN client_map_ :
        \/ h \in hosts
        \/ \E k \in DOMAIN host_address_map_ : host_address_map_[k] = h

(* C8: hashtag(key, enabled) is the key itself when hashtagging is off, or  *)
(* the key has no "{", or no "}" follows its first "{", or the first "}"    *)
(* after it follows it at once; and is otherwise the text strictly between  *)
(* the first "{" and the first "}" after it.  The call leaves the pool as   *)
(* it was.                                                                  *)

\* key[i] is the first "{" and key[j] the first "}" after it, with text between
Encloses(key, i, j) ==
    /\ key[i] = "{"
    /\ \A k \in 1..(i - 1) : key[k] # "{"
    /\ key[j] = "}"
    /\ \A k \in (i + 1)..(j - 1) : key[k] # "}"
    /\ j > i + 1

IsHashKey(key, enabled, r) ==
    IF enabled /\ \E i, j \in 1..Len(key) : i < j /\ Encloses(key, i, j)
    THEN \E i, j \in 1..Len(key) :
            /\ i < j
            /\ Encloses(key, i, j)
            /\ Len(r) = j - i - 1
            /\ \A k \in 1..Len(r) : r[k] = key[i + k]
    ELSE r = key

C8_HashtagMatchesReference ==
    /\ hk.done => IsHashKey(hk.key, hk.enabled, hk.result)
    /\ Before(World) = Constructed

\* a tag was taken from a key that has a "}" before its first "{"
C8_Witness ==
    /\ hk.done
    /\ hk.enabled
    /\ hk.result = << "a" >>
    /\ hk.key[1] = "}"

(* C11: a step that runs on one worker thread leaves the pool of every     *)
(* other worker, and the cluster as that worker sees it, as they were; and *)
(* the maps of a pool name only hosts of the cluster, hosts that this pool *)
(* created, and clients that this pool created.                            *)
C11_OthersUntouched ==
    \A u \in Threads : u # thread' => tls'[u] = tls[u]

C11_OwnObjectsOnly ==
    \A t \in Threads :
        LET w == tls[t].pool
            own == ClusterHosts \cup { NewHostId(i) : i \in 1..Len(w.new_hosts) }
        IN  /\ DOMAIN w.client_map_ \subseteq own
            /\ \A h \in DOMAIN w.client_map_ :
                  /\ w.client_map_[h] \in 1..Len(w.redis_clients)
                  /\ w.redis_clients[w.client_map_[h]].host = h
            /\ \A a \in DOMAIN w.host_address_map_ : w.host_address_map_[a] \in own
            /\ w.deferred_delete \subseteq 1..Len(w.redis_clients)

OnlyEntryGone(w, w2, c) ==
    LET h == w.redis_clients[c].host
    IN  /\ h \in DOMAIN w.client_map_
        /\ w.client_map_[h] = c
        /\ w2.client_map_ = MapErase(w.client_map_, h)
        /\ w2.host_address_map_ = w.host_address_map_
        /\ w2.cluster_ = w.cluster_
        /\ w2.host_set_member_update_cb_handle_ = w.host_set_member_update_cb_handle_
        /\ w2.new_hosts = w.new_hosts
        /\ w2.redis_clients[c].closed
        /\ Len(w2.redis_clients) = Len(w.redis_clients)
        /\ \A d \in 1..Len(w.redis_clients) : d # c => w2.redis_clients[d] = w.redis_clients[d]
        /\ ~w2.assert_failed

\* a request that resolves to host h is forwarded to a client made for it
CreatesClient(w, r, h) ==
    r.host = h =>
        /\ r.ret = Len(w.redis_clients) + 1
        /\ r.redis_clients = Append(w.redis_clients, r.redis_clients[r.ret])
        /\ r.redis_clients[r.ret].host = h
        /\ ~r.redis_clients[r.ret].closed

C12_CloseRemovesOwnEntry ==
    /\ \A c \in MappedClients : ~redis_clients[c].closed
    /\ \A c \in OpenClients :
          LET h == redis_clients[c].host
              remote == onEvent([World EXCEPT !.redis_clients[c].closed = TRUE], c, "RemoteClose")
              local == close(World, c)
          IN  /\ OnlyEntryGone(World, remote, c)
              /\ OnlyEntryGone(World, local, c)
              /\ onEvent(World, c, "Connected") = World
              /\ onEvent(World, c, "ConnectedZeroRtt") = World
              /\ \A chosen \in hosts :
                    CreatesClient(remote, makeRequest(Before(remote), chosen), h)
              /\ \A a \in HostAddressInputs :
                    CreatesClient(remote, makeRequestToHost(Before(remote), a), h)

\* the peer closed the client of host 1, the only host there ever was, and
\* the next request for host 1 went to a new client
C12_Witness ==
    /\ last.op = "makeRequest"
    /\ last.ret = 2
    /\ redis_clients[2].host = 1
    /\ redis_clients[1].closed
    /\ redis_clients[1].close_calls = 0
    /\ new_hosts = << >>
    /\ generation = 1
    /\ hosts = {1}
    /\ hosts_removed_seen = {}

(* C13: a redis client that raises its close event is not destroyed in the *)
(* step that handles the event: the step leaves it in the dispatcher's     *)
(* deferred deletion list, only a later turn of the dispatcher destroys    *)
(* it, and every client in the list is eventually destroyed, whether the   *)
(* peer closed it or the pool did from onHostsRemoved or from the close    *)
(* loop of onClusterRemoval.                                               *)
C13_ClosedIsDeferred ==
    \A c \in 1..Len(redis_clients) :
        /\ redis_clients[c].closed <=> (c \in deferred_delete \/ redis_clients[c].destroyed)
        /\ ~(c \in deferred_delete /\ redis_clients[c].destroyed)

C13_NotInCallback ==
    \A c \in 1..Len(redis_clients') :
        LET was == IF c <= Len(redis_clients) THEN redis_clients[c]
                   ELSE [closed |-> FALSE, destroyed |-> FALSE]
        IN  /\ (redis_clients'[c].closed /\ ~was.closed) =>
                  (c \in deferred_delete' /\ ~redis_clients'[c].destroyed)
            /\ (redis_clients'[c].destroyed /\ ~was.destroyed) =>
                  (c \in deferred_delete /\ was.closed)

C14_RemovalAffectsOnlyRemoved ==
    cluster_ # 0 =>
        \A hosts_removed \in RemovedLists(hosts) :
            LET gone == { hosts_removed[i] : i \in 1..Len(hosts_removed) }
                r == onHostsRemoved(World, hosts_removed)
            IN  /\ r.cluster_ = cluster_
                /\ \A h \in gone :
                      /\ h \notin DOMAIN r.client_map_
                      /\ h \in DOMAIN client_map_ => r.redis_clients[client_map_[h]].closed
                      /\ \A a \in DOMAIN r.host_address_map_ : r.host_address_map_[a] # h
                /\ \A h \in DOMAIN client_map_ \ gone :
                      /\ h \in DOMAIN r.client_map_
                      /\ r.client_map_[h] = client_map_[h]
                      /\ r.redis_clients[client_map_[h]] = redis_clients[client_map_[h]]
                /\ \A a \in DOMAIN host_address_map_ :
                      host_address_map_[a] \notin gone =>
                          /\ a \in DOMAIN r.host_address_map_
                          /\ r.host_address_map_[a] = host_address_map_[a]

(* C15: a cluster add or update and a cluster removal for a name that is   *)
(* not the pool's leave client_map_, host_address_map_, cluster_, the      *)
(* handle and the registered callbacks as they were, and close no client.  *)
C15_HandlersIgnore ==
    /\ onClusterRemoval(World, "other") = World
    /\ \A H \in SUBSET ClusterHosts, g \in 0..(MaxGenerations + 1) :
          onClusterAddOrUpdateNonVirtual(
              World, [name |-> "other", generation |-> g, hosts |-> HostList(H)]) = World

C15_StepIgnores ==
    last'.op \in {"onClusterAddOrUpdate", "onClusterRemoval"} =>
        UNCHANGED << cluster_, host_set_member_update_cb_handle_, client_map_,
                     host_address_map_, redis_clients, new_hosts, deferred_delete,
                     member_update_cbs >>

C15_OtherNamesIgnored == [](C15_HandlersIgnore) /\ [][C15_StepIgnores]_vars

\* the removal of a cluster of another name was announced to a pool that
\* tracks its cluster and holds an open client
C15_Witness ==
    /\ last.op = "onClusterRemoval"
    /\ cluster_ # 0
    /\ host_set_member_update_cb_handle_ = cluster_
    /\ DOMAIN host_address_map_ # {}
    /\ \E h \in DOMAIN client_map_ : ~redis_clients[client_map_[h]].closed

(* C16: every key of host_address_map_ is address()->asString() of the     *)
(* host it maps to, for hosts of the cluster and for hosts that            *)
(* makeRequestToHost created, IPv4 and IPv6; and two strings that name the *)
(* same address and port, passed to makeRequestToHost one after the other, *)
(* resolve to the same host.                                               *)

\* the address and port that a string accepted by makeRequestToHost names
Denotes(a) ==
    LET colon == rfind(a, ":")
        literal == SubSeq(a, 1, colon - 1)
        port == SimpleAtoi(SubSeq(a, colon + 1, Len(a)))
    IN  IF find(literal, ":", 1) # npos THEN Ipv6Instance(literal, port)
        ELSE Ipv4Instance(literal, port)

C16_KeysAreNormalized ==
    /\ \A k \in DOMAIN host_address_map_ : k = HostAddress(World, host_address_map_[k])
    /\ cluster_ # 0 =>
          \A a, b \in { x \in HostAddressInputs : ~Malformed(x) } :
              LET first == makeRequestToHost(World, a)
                  second == makeRequestToHost(Before(first), b)
              IN  Denotes(a) = Denotes(b) => second.host = first.host

(* C17: after a makeRequest that was forwarded to a client of host b,      *)
(* host_address_map_ has an entry under b's address.  Where it had none    *)
(* before the call, the entry maps to b and no other entry changed, and a  *)
(* makeRequestToHost to that address then goes to b's client and creates   *)
(* nothing; where it had one, host_address_map_ is as it was.  This holds  *)
(* also for a host that joined the cluster after the last cluster add.     *)
C17_Resync ==
    cluster_ # 0 =>
        \A b \in hosts :
            LET r == makeRequest(World, b)
                a == ClusterHostAddress(b)
                direct == makeRequestToHost(Before(r), DirectAddress(b))
            IN  /\ r.ret # 0
                /\ r.host = b
                /\ a \in DOMAIN r.host_address_map_
                /\ IF a \in DOMAIN host_address_map_
                   THEN r.host_address_map_ = host_address_map_
                   ELSE /\ r.host_address_map_ = MapPut(host_address_map_, a, b)
                        /\ direct.ret = r.ret
                        /\ direct.host = b
                        /\ direct.redis_clients = r.redis_clients
                        /\ direct.new_hosts = r.new_hosts

C17_AfterMakeRequest ==
    (last.op = "makeRequest" /\ last.ret # 0) =>
        HostAddress(World, redis_clients[last.ret].host) \in DOMAIN host_address_map_

C17_DefensiveResync == C17_Resync /\ C17_AfterMakeRequest

\* a request was forwarded to a host that is indexed under its address,
\* while another host, which joined the cluster after the cluster add and
\* was never chosen, is not indexed
C17_Witness ==
    /\ last.op = "makeRequest"
    /\ last.ret # 0
    /\ generation = 1
    /\ hosts_removed_seen = {}
    /\ new_hosts = << >>
    /\ LET b == redis_clients[last.ret].host
       IN  /\ b \in hosts
           /\ host_address_map_[ClusterHostAddress(b)] = b
           /\ \E g \in hosts : ClusterHostAddress(g) \notin DOMAIN host_address_map_

(* C18: onClusterRemoval removes the pool's member update callback.  Only  *)
(* the priority set of the tracked cluster holds a callback of the pool,   *)
(* none does while no cluster is tracked, so at most one is registered;    *)
(* and a member update run by the priority set of an earlier generation    *)
(* closes no client and erases no entry of host_address_map_.              *)
C18_RemovalUnsubscribes ==
    /\ Cardinality(member_update_cbs) <= 1
    /\ member_update_cbs = (IF cluster_ = 0 THEN {} ELSE {cluster_})
    /\ \A g \in (1..generation) \ {cm_cluster} :
          \A hosts_removed \in RemovedLists(ClusterHosts) :
              runCallbacks(World, g, hosts_removed) = World

(* C19: the loop that closes the first client of client_map_ until the map *)
(* is empty comes to an end, in onClusterRemoval and in the destructor: it *)
(* runs once for every client that the map held at entry, each close()     *)
(* takes that client's entry out of the map, and the map is empty after    *)
(* it.                                                                     *)
C19_CloseLoopTerminates ==
    /\ ~hung
    /\ LET n == Cardinality(DOMAIN client_map_)
           r == closeAllClients(World, n)
       IN  /\ ~r.hung
           /\ DOMAIN r.client_map_ = {}
           /\ \A c \in 1..Len(redis_clients) :
                 IF c \in MappedClients
                 THEN /\ r.redis_clients[c].close_calls = redis_clients[c].close_calls + 1
                      /\ r.redis_clients[c].closed
                 ELSE r.redis_clients[c] = redis_clients[c]
           /\ n > 0 =>
                 LET first == client_map_[begin(client_map_)]
                 IN  close(World, first).client_map_ = MapErase(client_map_, begin(client_map_))
    /\ LET r == onClusterRemoval(World, cluster_name_)
       IN  ~r.hung /\ DOMAIN r.client_map_ = {}
    /\ LET r == destroyThreadLocalPool(World)
       IN  ~r.hung /\ DOMAIN r.client_map_ = {}

\* the destructor closed the two clients of a pool whose cluster was never
\* replaced or removed and never lost a host
C19_Witness ==
    /\ last.op = "~ThreadLocalPool"
    /\ generation = 1
    /\ cluster_ = 1
    /\ hosts_removed_seen = {}
    /\ member_update_cbs = {}
    /\ DOMAIN client_map_ = {}
    /\ Len(redis_clients) = 2
    /\ \A c \in 1..2 : redis_clients[c].closed /\ redis_clients[c].close_calls = 1

(* C20: no two entries of client_map_ are for hosts with the same          *)
(* address()->asString(), whether makeRequest or makeRequestToHost made    *)
(* them.                                                                   *)
C20_OneClientPerAddress ==
    \A h, g \in DOMAIN client_map_ :
        HostAddress(World, h) = HostAddress(World, g) => h = g

===========================================================================
